---- MODULE Spec2Model ----
(***************************************************************************)
(* A model of postman-sync: the PostmanSync orchestrator (PostmanSync.ts), *)
(* the CollectionWatcher change detector, the RateLimiter credential       *)
(* rotator and the PostmanApiClient upsert operation.                      *)
(*                                                                         *)
(* Conventions.  An optional JavaScript value is a sequence of length at   *)
(* most one: Undefined is <<>> and Some(x) is <<x>>.  An optional string   *)
(* (collectionUid) is the string itself, "undefined" when absent.  Array   *)
(* indices keep the source's 0-based values; sequences are 1-based, so     *)
(* apiKeys[i] of the source is apiKeys[i + 1] here.  Times are in          *)
(* milliseconds as in the source.  An HTTP exchange is summarised by its   *)
(* status; status NoResponse stands for a request that got no response.    *)
(***************************************************************************)
EXTENDS Integers, Sequences, FiniteSets, TLC

VARIABLES
    \* ---- PostmanSync (src/src/PostmanSync.ts)
    options,              \* the constructor's PostmanSyncOptions
    hasErrorListener,     \* whether the host registered an "error" listener
    running,              \* PostmanSync.running
    isSyncing,            \* PostmanSync.isSyncing
    lastSyncTimes,        \* PostmanSync.lastSyncTimes (Map id -> ms)
    targetWorkspacesMap,  \* PostmanSync.targetWorkspacesMap, in insertion order
    timers,               \* pending setTimeout(() => this.syncLoop(), interval)
    pc,                   \* where the cycle is suspended: idle, fetching, upserting
    cur,                  \* 1-based position of the target whose upsert is awaited
    collection,           \* the document fetched by the cycle in progress
    now,                  \* Date.now()
    events,               \* emit() calls of the current (or last) cycle, in order
    visited,              \* per-target decisions of the current (or last) cycle
    inflight,             \* number of sync() calls that have not finished
    last,                 \* what syncLoop() did in the last step: stopped, skipped,
                          \* cycle; returned for a start() that returned at
                          \* line 172; none for any other step
    \* ---- CollectionWatcher (src/unnamed/part_001)
    watcher,              \* [enableJsonDiff, lastHash]
    storedFile,           \* the persisted snapshot file, NoFile when absent
    storageDirExists,     \* whether the directory storageDir exists
    detectCall,           \* the last detectChange call and the one before it
    \* ---- RateLimiter (src/unnamed/part_002)
    limiter,              \* [apiKeys, currentIndex]
    retryCall,            \* the last withRetry invocation
    \* ---- pure operations applied to drawn inputs
    scheduleCall,         \* an isTargetWithinSchedule call
    clientCall,           \* an upsertCollection call
    ctorCall              \* a constructor call

orchVars == <<options, hasErrorListener, running, isSyncing, lastSyncTimes,
              targetWorkspacesMap, timers, pc, cur, collection, now, events,
              visited, inflight, last>>
watcherVars == <<watcher, storedFile, storageDirExists, detectCall>>
limiterVars == <<limiter, retryCall>>
vars == <<orchVars, watcherVars, limiterVars, scheduleCall, clientCall, ctorCall>>

-----------------------------------------------------------------------------
(* Optional values and small helpers *)

Undefined == <<>>
Some(x) == <<x>>
IsDefined(o) == o # <<>>
NoUid == "undefined"
Range(s) == {s[i] : i \in 1..Len(s)}
SeqsUpTo(S, n) == UNION {[1..k -> S] : k \in 0..n}

\* Map.get(k) ?? d  and  Map.set(k, v) on a Map modelled as a function
MapGet(m, k, d) == IF k \in DOMAIN m THEN m[k] ELSE d
MapSet(m, k, v) == [x \in (DOMAIN m) \cup {k} |-> IF x = k THEN v ELSE m[x]]
EmptyMap == [x \in {} |-> 0]

-----------------------------------------------------------------------------
(* HTTP statuses *)

HttpOk == 200
HttpForbidden == 403
HttpNotFound == 404
HttpTooManyRequests == 429
NoResponse == 0
\* axios resolves a response whose status is 2xx and rejects every other one
Resolves(status) == status >= 200 /\ status < 300

-----------------------------------------------------------------------------
(* RateLimiter *)

\* Bound: the largest credential pool drawn
MaxKeys == 3

KeyNames == <<"k0", "k1", "k2", "k3", "k4", "k5">>
Pool(n) == [i \in 1..n |-> KeyNames[i]]

\* getNextKey(): the key under the cursor, and the cursor advanced (wrapping)
GetNextKeyStuck(apiKeys, currentIndex) ==
    [key |-> apiKeys[currentIndex + 1], currentIndex |-> currentIndex]
GetNextKey(apiKeys, currentIndex) ==
    [key |-> apiKeys[currentIndex + 1],
     currentIndex |-> (currentIndex + 1) % Len(apiKeys)]

\* catch (err): err.response?.status === 429
IsRateLimitAnyError(r) == TRUE
IsRateLimit(r) == r.status = HttpTooManyRequests

PoolExhausted == [kind |-> "err", status |-> NoResponse,
                  message |-> "All API keys hit rate limit."]

\* withRetry(fn): fn maps a key to what the operation does with it, a record
\* with kind "ok" (resolved) or "err" (rejected, with the response status).
\* Returns what withRetry resolves or rejects with, the cursor positions it
\* used in order, and the cursor afterwards.
RECURSIVE WithRetryLoop(_, _, _, _, _)
WithRetryLoop(apiKeys, currentIndex, fn, i, tried) ==
    IF i >= Len(apiKeys)
    THEN [outcome |-> PoolExhausted, tried |-> tried, currentIndex |-> currentIndex]
    ELSE LET g == GetNextKey(apiKeys, currentIndex)
             r == fn[g.key]
             t == Append(tried, currentIndex)
         IN  IF r.kind = "ok"
             THEN [outcome |-> r, tried |-> t, currentIndex |-> g.currentIndex]
             ELSE IF IsRateLimit(r)
                  THEN WithRetryLoop(apiKeys, g.currentIndex, fn, i + 1, t)
                  ELSE [outcome |-> r, tried |-> t, currentIndex |-> g.currentIndex]

WithRetry(apiKeys, currentIndex, fn) ==
    WithRetryLoop(apiKeys, currentIndex, fn, 0, <<>>)

-----------------------------------------------------------------------------
(* PostmanApiClient.upsertCollection *)

\* createCollection: POST /collections.  http.create is the status the POST
\* gets and http.uid the uid the response carries.
CreateCollection(http, calls) ==
    IF Resolves(http.create)
    THEN [kind |-> "ok", action |-> "insert", status |-> http.create,
          uid |-> http.uid, calls |-> Append(calls, "POST")]
    ELSE [kind |-> "err", action |-> "none", status |-> http.create,
          uid |-> NoUid, calls |-> Append(calls, "POST")]

\* updateCollection: PUT /collections/<uid>.  http.update is the status it gets.
UpdateCollection(http, calls) ==
    IF Resolves(http.update)
    THEN [kind |-> "ok", action |-> "update", status |-> http.update,
          uid |-> NoUid, calls |-> Append(calls, "PUT")]
    ELSE [kind |-> "err", action |-> "none", status |-> http.update,
          uid |-> NoUid, calls |-> Append(calls, "PUT")]

\* upsertCollection(workspaceId, collection, collectionUid, preventAutoCreate)
\* The result lists the requests issued, in order.
UpsertCollection(collectionUid, preventAutoCreate, http) ==
    IF collectionUid = NoUid
    THEN IF ~preventAutoCreate
         THEN CreateCollection(http, <<>>)
         ELSE [kind |-> "err", action |-> "none", status |-> NoResponse,
               uid |-> NoUid, calls |-> <<>>]
    ELSE LET u == UpdateCollection(http, <<>>)
         IN  IF u.kind = "ok" THEN u
             ELSE IF u.status \in {HttpForbidden, HttpNotFound}
                  THEN CreateCollection(http, u.calls)
                  ELSE u

UpdateStatuses == {HttpOk, HttpForbidden, HttpNotFound, HttpTooManyRequests, 500, NoResponse}
CreateStatuses == {HttpOk, 201, HttpTooManyRequests, 500}
NewUids == {"uid-new"}
HttpReplies == [update : UpdateStatuses, create : CreateStatuses, uid : NewUids]

-----------------------------------------------------------------------------
(* Schedules: isTargetWithinSchedule and shouldSyncTarget *)

MsPerMinute == 60000
MsPerHour == 60 * MsPerMinute
DefaultIntervalMinutes == 10

\* new Date().getHours() at time t (local time taken as the clock's own)
GetHours(t) == (t \div MsPerHour) % 24

\* the predicate both gates apply to a window
SlotMatchesNoWrap(slot, hour) ==
    hour >= slot.startHour /\ hour < slot.endHour
SlotMatches(slot, hour) ==
    IF slot.startHour <= slot.endHour
    THEN hour >= slot.startHour /\ hour < slot.endHour
    ELSE hour >= slot.startHour \/ hour < slot.endHour

HasLocal(target) ==
    IsDefined(target.syncSchedule) /\ Len(target.syncSchedule[1]) > 0
HasGlobal(scheduleConfig) ==
    IsDefined(scheduleConfig) /\ Len(scheduleConfig[1]) > 0

\* scheduleToUse; Undefined stands for null
ScheduleToUse(target, scheduleConfig) ==
    IF HasLocal(target) THEN target.syncSchedule
    ELSE IF HasGlobal(scheduleConfig) THEN scheduleConfig
    ELSE Undefined

\* the events isTargetWithinSchedule emits
OverrideEventsWhenLocal(target, scheduleConfig) ==
    IF HasLocal(target)
    THEN << <<"scheduleOverride", target.id>> >>
    ELSE <<>>
OverrideEvents(target, scheduleConfig) ==
    IF HasLocal(target) /\ HasGlobal(scheduleConfig)
    THEN << <<"scheduleOverride", target.id>> >>
    ELSE <<>>

\* isTargetWithinSchedule(target) at local hour `hour`:
\* the boolean it returns and the events it emits
IsTargetWithinSchedule(target, scheduleConfig, hour) ==
    LET scheduleToUse == ScheduleToUse(target, scheduleConfig)
    IN  [result |-> IF ~IsDefined(scheduleToUse) THEN TRUE
                    ELSE \E i \in 1..Len(scheduleToUse[1]) :
                            SlotMatches(scheduleToUse[1][i], hour),
         emitted |-> OverrideEvents(target, scheduleConfig)]

\* shouldSyncTarget(target) at time t
ShouldSyncTarget(target, scheduleConfig, lastTimes, t) ==
    LET lastT == MapGet(lastTimes, target.id, 0)
        schedule == IF IsDefined(target.syncSchedule)
                    THEN target.syncSchedule ELSE scheduleConfig
        slots == IF IsDefined(schedule) THEN schedule[1] ELSE <<>>
        hits == {i \in 1..Len(slots) : SlotMatches(slots[i], GetHours(t))}
        intervalMinutes ==
            IF hits = {} THEN DefaultIntervalMinutes
            ELSE slots[CHOOSE i \in hits : \A j \in hits : i <= j].intervalMinutes
    IN  t - lastT >= intervalMinutes * MsPerMinute

-----------------------------------------------------------------------------
(* PostmanSync constructor: validateOptions *)

MinLoopIntervalMs == 3000

\* Strings the format checks accept (the regular expressions of lines 60, 77,
\* 82 and 93 are modelled by membership)
ValidUrls == {"https://api.postman.com/collections/c-1?access_key=PMAT-1"}
ValidIds == {"ws1", "ws2", "ws3", "ws4"}
ValidApiKeys == Range(KeyNames)
ValidUids == {"uid-cfg"} \cup NewUids

FirstFailure(results) ==
    IF \A i \in 1..Len(results) : results[i] = "ok" THEN "ok"
    ELSE results[CHOOSE i \in 1..Len(results) :
                    /\ results[i] # "ok"
                    /\ \A j \in 1..(i - 1) : results[j] = "ok"]

\* lines 118-132: one schedule window.  intervalMinutes is an integer here, so
\* intervalMinutes < 0.5 is 2 * intervalMinutes < 1.
ValidateSlot(slot) ==
    IF slot.startHour < 0 \/ slot.startHour > 23 THEN "startHour must be between 0 and 23"
    ELSE IF slot.endHour < 0 \/ slot.endHour > 23 THEN "endHour must be between 0 and 23"
    ELSE IF slot.startHour = slot.endHour THEN "startHour and endHour cannot be equal"
    ELSE IF 2 * slot.intervalMinutes < 1 THEN "intervalMinutes must be at least 0.5"
    ELSE "ok"

\* lines 72-143: one entry of targetWorkspaces
ValidateWorkspaceIdOnly(workspace) ==
    IF workspace.id \notin ValidIds THEN "id must be a valid UUID" ELSE "ok"
ValidateWorkspace(workspace) ==
    IF workspace.id \notin ValidIds THEN "id must be a valid UUID"
    ELSE IF Len(workspace.apiKeys) = 0 THEN "apiKeys must be a non-empty array"
    ELSE IF \E k \in 1..Len(workspace.apiKeys) : workspace.apiKeys[k] \notin ValidApiKeys
         THEN "apiKeys must be valid Postman API keys"
    ELSE IF workspace.collectionUid # NoUid /\ workspace.collectionUid \notin ValidUids
         THEN "collectionUid must match expected format"
    ELSE IF workspace.collectionUid = NoUid /\ workspace.preventAutoCreate
         THEN "collectionUid must be defined or preventAutoCreate disabled"
    ELSE IF IsDefined(workspace.syncSchedule)
         THEN FirstFailure([j \in 1..Len(workspace.syncSchedule[1]) |->
                               ValidateSlot(workspace.syncSchedule[1][j])])
    ELSE "ok"

\* validateOptions(options): "ok", or the message of the Error it throws
ValidateOptions(opts) ==
    IF opts.readOnlyUrl \notin ValidUrls THEN "readOnlyUrl must be a valid link"
    ELSE IF Len(opts.targetWorkspaces) = 0 THEN "targetWorkspaces must be a non-empty array"
    ELSE LET ws == FirstFailure([i \in 1..Len(opts.targetWorkspaces) |->
                                    ValidateWorkspace(opts.targetWorkspaces[i])])
         IN  IF ws # "ok" THEN ws
             ELSE IF IsDefined(opts.minIntervalMs) /\ opts.minIntervalMs[1] < MinLoopIntervalMs
                  THEN "minIntervalMs must be at least 3000ms"
             ELSE "ok"

\* lines 38-40: targetWorkspacesMap.set(ws.id, ws) for each entry, a Map
\* keeping the position of a key's first insertion
RECURSIVE BuildTargetMap(_, _)
BuildTargetMap(list, map) ==
    IF list = <<>> THEN map
    ELSE LET ws == Head(list)
             at == {i \in 1..Len(map) : map[i].id = ws.id}
         IN  BuildTargetMap(Tail(list),
                            IF at = {} THEN Append(map, ws)
                            ELSE [map EXCEPT ![CHOOSE i \in at : TRUE] = ws])

-----------------------------------------------------------------------------
(* CollectionWatcher *)

(* A JSON value that is hashed or persisted is modelled by its canonical     *)
(* text.  A document is [name, item]; item is the text of its item array,    *)
(* NoItem when the document has none.                                        *)
NoItem == "undefined"
NoHash == "null"
NoFile == Undefined
Docs == [name : {"n1", "n2"}, item : {NoItem, "[a]", "[b]"}]

\* newCollection.item || newCollection
NewItem(newCollection) ==
    IF newCollection.item # NoItem THEN newCollection.item
    ELSE ToString(newCollection)

\* hash(data): sha256 of JSON.stringify(data), taken as injective
Hash(data) == "sha256:" \o data

\* writeStoredCollectionJson: JSON.stringify(collection, null, 2) into the file
WriteStoredCollectionJson(item) == Some([indent |-> 2, text |-> item])
\* readStoredCollectionJson: JSON.parse of the file, Undefined for null
ReadStoredCollectionJson(file) ==
    IF IsDefined(file) THEN Some(file[1].text) ELSE Undefined

\* jsonpatch.compare(a, b): the empty patch for equal documents
Compare(a, b) == IF a = b THEN <<>> ELSE << <<"replace", a, b>> >>

\* loadPreviousState(): the watcher afterwards
LoadPreviousStateNothing(w, file) == w
LoadPreviousState(w, file) ==
    IF ~w.enableJsonDiff THEN w
    ELSE IF IsDefined(file)
         THEN [w EXCEPT !.lastHash = Hash(ReadStoredCollectionJson(file)[1])]
         ELSE w

\* detectChange(newCollection): the result {changed, diff}, the watcher and
\* the file afterwards
DetectChangeKeepHash(w, file, newCollection) ==
    LET newItem == NewItem(newCollection)
        currentHash == Hash(newItem)
        changed == w.lastHash # currentHash
        writes == changed /\ w.enableJsonDiff
        lastCollection == ReadStoredCollectionJson(file)
    IN  [changed |-> changed,
         diff |-> IF writes /\ IsDefined(lastCollection)
                  THEN Some(Compare(lastCollection[1], newItem)) ELSE Undefined,
         watcher |-> IF w.enableJsonDiff THEN [w EXCEPT !.lastHash = currentHash] ELSE w,
         file |-> IF writes THEN WriteStoredCollectionJson(newItem) ELSE file]
DetectChangeDiffAfterWrite(w, file, newCollection) ==
    LET newItem == NewItem(newCollection)
        currentHash == Hash(newItem)
        changed == w.lastHash # currentHash
        writes == changed /\ w.enableJsonDiff
        written == IF writes THEN WriteStoredCollectionJson(newItem) ELSE file
        lastCollection == ReadStoredCollectionJson(written)
    IN  [changed |-> changed,
         diff |-> IF writes /\ IsDefined(lastCollection)
                  THEN Some(Compare(lastCollection[1], newItem)) ELSE Undefined,
         watcher |-> [w EXCEPT !.lastHash = currentHash],
         file |-> written]
DetectChangeWithoutWrite(w, file, newCollection) ==
    LET newItem == NewItem(newCollection)
        currentHash == Hash(newItem)
        changed == w.lastHash # currentHash
        writes == changed /\ w.enableJsonDiff
        lastCollection == ReadStoredCollectionJson(file)
    IN  [changed |-> changed,
         diff |-> IF writes /\ IsDefined(lastCollection)
                  THEN Some(Compare(lastCollection[1], newItem)) ELSE Undefined,
         watcher |-> [w EXCEPT !.lastHash = currentHash],
         file |-> file]
DetectChange(w, file, newCollection) ==
    LET newItem == NewItem(newCollection)
        currentHash == Hash(newItem)
        changed == w.lastHash # currentHash
        writes == changed /\ w.enableJsonDiff
        lastCollection == ReadStoredCollectionJson(file)
    IN  [changed |-> changed,
         diff |-> IF writes /\ IsDefined(lastCollection)
                  THEN Some(Compare(lastCollection[1], newItem)) ELSE Undefined,
         watcher |-> [w EXCEPT !.lastHash = currentHash],
         file |-> IF writes THEN WriteStoredCollectionJson(newItem) ELSE file]

-----------------------------------------------------------------------------
(* Values of the variables a specification does not use *)

OrchOff ==
    /\ options = <<>> /\ hasErrorListener = FALSE /\ running = FALSE
    /\ isSyncing = FALSE /\ lastSyncTimes = EmptyMap /\ targetWorkspacesMap = <<>>
    /\ timers = 0 /\ pc = "off" /\ cur = 0 /\ collection = <<>> /\ now = 0
    /\ events = <<>> /\ visited = <<>> /\ inflight = 0 /\ last = <<>>
WatcherOff ==
    /\ watcher = <<>> /\ storedFile = NoFile /\ storageDirExists = FALSE
    /\ detectCall = <<>>
LimiterOff == limiter = <<>> /\ retryCall = <<>>
ScheduleOff == scheduleCall = <<>>
ClientOff == clientCall = <<>>
CtorOff == ctorCall = <<>>

-----------------------------------------------------------------------------
(* SpecRetry: a RateLimiter and the calls made on it *)

\* what the operation does with one key: resolve, or reject with a status
RetryKinds == {HttpOk, HttpTooManyRequests, 500, NoResponse}
OperationFor(kinds) ==
    [k \in DOMAIN kinds |->
        [kind |-> IF Resolves(kinds[k]) THEN "ok" ELSE "err",
         status |-> kinds[k], value |-> k]]

InitRetry ==
    /\ OrchOff /\ WatcherOff /\ ScheduleOff /\ ClientOff /\ CtorOff
    /\ \E n \in 1..MaxKeys : limiter = [apiKeys |-> Pool(n), currentIndex |-> 0]
    /\ retryCall = [called |-> FALSE]

\* limiter.getNextKey()
GetNextKeyCall ==
    /\ limiter' = [limiter EXCEPT
                     !.currentIndex = GetNextKey(limiter.apiKeys, limiter.currentIndex).currentIndex]
    /\ UNCHANGED <<retryCall, orchVars, watcherVars, scheduleCall, clientCall, ctorCall>>

\* limiter.withRetry(fn), run to its end
WithRetryCall ==
    \E kinds \in [Range(limiter.apiKeys) -> RetryKinds] :
        LET fn == OperationFor(kinds)
            r == WithRetry(limiter.apiKeys, limiter.currentIndex, fn)
        IN  /\ limiter' = [limiter EXCEPT !.currentIndex = r.currentIndex]
            /\ retryCall' = [called |-> TRUE, fn |-> fn,
                             startIndex |-> limiter.currentIndex, ret |-> r]
            /\ UNCHANGED <<orchVars, watcherVars, scheduleCall, clientCall, ctorCall>>

NextRetry == GetNextKeyCall \/ WithRetryCall
SpecRetry == InitRetry /\ [][NextRetry]_vars

\* the credential at position j (0-based) of the last invocation's attempt order
KeyAtAttempt(j) ==
    limiter.apiKeys[((retryCall.startIndex + j) % Len(limiter.apiKeys)) + 1]

\* C2: one withRetry invocation on a pool of N >= 1 credentials tries them one
\* at a time in pool order from the cursor, never one twice; when every
\* credential is rejected with 429 it makes exactly N attempts and fails with
\* the pool-exhausted error; when the credential at position k of the attempt
\* order is the first to succeed it makes exactly k + 1 attempts and returns
\* that credential's result.
C2_AttemptsInRotation ==
    retryCall.called =>
        LET n == Len(limiter.apiKeys)
            t == retryCall.ret.tried
            fn == retryCall.fn
        IN  /\ \A j \in 1..Len(t) : t[j] = (retryCall.startIndex + j - 1) % n
            /\ \A i, j \in 1..Len(t) : i # j => t[i] # t[j]
            /\ (\A k \in Range(limiter.apiKeys) : fn[k].status = HttpTooManyRequests)
                  => /\ Len(t) = n
                     /\ retryCall.ret.outcome = PoolExhausted
            /\ \A k \in 0..(n - 1) :
                  ( /\ fn[KeyAtAttempt(k)].kind = "ok"
                    /\ \A j \in 0..(k - 1) :
                          fn[KeyAtAttempt(j)].status = HttpTooManyRequests )
                  => /\ Len(t) = k + 1
                     /\ retryCall.ret.outcome = fn[KeyAtAttempt(k)]

\* C2 witness: an invocation that started at a cursor past 0, was rejected
\* with 429 twice and succeeded with the third credential
C2_Witness ==
    /\ retryCall.called
    /\ retryCall.startIndex = 1
    /\ Len(retryCall.ret.tried) = 3
    /\ retryCall.ret.outcome.kind = "ok"

\* C3: withRetry goes on to another credential only after a 429 rejection:
\* an attempt that fails with any other error ends the invocation, which
\* rejects with that same error.
C3_OnlyRateLimitRetries ==
    retryCall.called =>
        LET t == retryCall.ret.tried
            fn == retryCall.fn
        IN  \A j \in 1..Len(t) :
               LET r == fn[limiter.apiKeys[t[j] + 1]]
               IN  /\ j < Len(t) => r.kind = "err" /\ r.status = HttpTooManyRequests
                   /\ (r.kind = "err" /\ r.status # HttpTooManyRequests)
                         => j = Len(t) /\ retryCall.ret.outcome = r

\* C3 witness: the second attempt failed with status 500 and a credential was
\* left untried
C3_Witness ==
    /\ retryCall.called
    /\ Len(retryCall.ret.tried) = 2
    /\ Len(limiter.apiKeys) = 3
    /\ retryCall.ret.outcome.kind = "err"
    /\ retryCall.ret.outcome.status = 500

-----------------------------------------------------------------------------
(* SpecSchedule: isTargetWithinSchedule applied to drawn inputs *)

\* Bound: the longest schedule drawn
MaxSlots == 2

\* windows over two hours: a plain one, one wrapping midnight, and the two
\* with equal hours (which only a global schedule can hold once validated)
WindowHours == {6, 18}
Windows == [startHour : WindowHours, endHour : WindowHours, intervalMinutes : {5}]
Schedules == {Undefined} \cup {Some(s) : s \in SeqsUpTo(Windows, MaxSlots)}

ScheduleTarget(schedule) ==
    [id |-> "ws1", apiKeys |-> Pool(1), collectionUid |-> NoUid,
     preventAutoCreate |-> FALSE, enabled |-> TRUE, syncSchedule |-> schedule]

InitSchedule ==
    /\ OrchOff /\ WatcherOff /\ LimiterOff /\ ClientOff /\ CtorOff
    /\ \E local \in Schedules, global \in Schedules, hour \in 0..23 :
          scheduleCall = [called |-> FALSE, target |-> ScheduleTarget(local),
                          scheduleConfig |-> global, hour |-> hour]

\* sync.isTargetWithinSchedule(target) with the clock at scheduleCall.hour
IsTargetWithinScheduleCall ==
    /\ ~scheduleCall.called
    /\ scheduleCall' =
          [called |-> TRUE, target |-> scheduleCall.target,
           scheduleConfig |-> scheduleCall.scheduleConfig, hour |-> scheduleCall.hour,
           ret |-> IsTargetWithinSchedule(scheduleCall.target,
                                          scheduleCall.scheduleConfig, scheduleCall.hour)]
    /\ UNCHANGED <<orchVars, watcherVars, limiterVars, clientCall, ctorCall>>

NextSchedule == IsTargetWithinScheduleCall
SpecSchedule == InitSchedule /\ [][NextSchedule]_vars

\* the claim's window membership: start <= hour < end for start < end,
\* hour >= start or hour < end for start > end
WindowContains(w, hour) ==
    \/ w.startHour < w.endHour /\ w.startHour <= hour /\ hour < w.endHour
    \/ w.startHour > w.endHour /\ (hour >= w.startHour \/ hour < w.endHour)
SomeWindowContains(schedule, hour) ==
    \E i \in 1..Len(schedule[1]) : WindowContains(schedule[1][i], hour)
NonEmpty(schedule) == IsDefined(schedule) /\ schedule[1] # <<>>

\* C4: isTargetWithinSchedule returns whether some window of the target's
\* schedule contains the hour when that schedule is non-empty, otherwise
\* whether some window of the global schedule contains it when that one is
\* non-empty, otherwise true.
C4_ScheduleResolution ==
    scheduleCall.called =>
        LET local == scheduleCall.target.syncSchedule
            global == scheduleCall.scheduleConfig
            hour == scheduleCall.hour
        IN  scheduleCall.ret.result =
               IF NonEmpty(local) THEN SomeWindowContains(local, hour)
               ELSE IF NonEmpty(global) THEN SomeWindowContains(global, hour)
               ELSE TRUE

\* C4 witness: a call at hour 2 where the target's schedule holds only the
\* window wrapping midnight, which contains it, and the global schedule holds
\* only the plain window, which does not
C4_Witness ==
    /\ scheduleCall.called
    /\ scheduleCall.hour = 2
    /\ scheduleCall.target.syncSchedule =
          Some(<<[startHour |-> 18, endHour |-> 6, intervalMinutes |-> 5]>>)
    /\ scheduleCall.scheduleConfig =
          Some(<<[startHour |-> 6, endHour |-> 18, intervalMinutes |-> 5]>>)
    /\ scheduleCall.ret.result

\* C5: a call emits exactly one scheduleOverride event when the target's
\* schedule and the global schedule are both non-empty, whatever it returns,
\* and no event otherwise.
C5_OverrideOncePerCall ==
    scheduleCall.called =>
        LET both == /\ NonEmpty(scheduleCall.target.syncSchedule)
                    /\ NonEmpty(scheduleCall.scheduleConfig)
            n == Cardinality({i \in 1..Len(scheduleCall.ret.emitted) :
                                scheduleCall.ret.emitted[i][1] = "scheduleOverride"})
        IN  /\ both => n = 1
            /\ ~both => n = 0
            /\ Len(scheduleCall.ret.emitted) = n

\* C5 witness: both schedules are non-empty, the call returned false and
\* emitted the event
C5_Witness ==
    /\ scheduleCall.called
    /\ NonEmpty(scheduleCall.target.syncSchedule)
    /\ NonEmpty(scheduleCall.scheduleConfig)
    /\ ~scheduleCall.ret.result
    /\ Len(scheduleCall.ret.emitted) = 1

-----------------------------------------------------------------------------
(* SpecWatcher: a CollectionWatcher and the calls made on it *)

InitWatcher ==
    /\ OrchOff /\ LimiterOff /\ ScheduleOff /\ ClientOff /\ CtorOff
    /\ \E diffing \in BOOLEAN : watcher = [enableJsonDiff |-> diffing, lastHash |-> NoHash]
    /\ storedFile \in {NoFile} \cup {WriteStoredCollectionJson(NewItem(d)) : d \in Docs}
    /\ storageDirExists \in IF IsDefined(storedFile) THEN {TRUE} ELSE BOOLEAN
    /\ detectCall = [calls |-> 0, loaded |-> FALSE]

\* watcher.loadPreviousState(); lines 22-24 create the directory
LoadPreviousStateCall ==
    /\ watcher' = LoadPreviousState(watcher, storedFile)
    /\ storageDirExists' = (storageDirExists \/ watcher.enableJsonDiff)
    /\ detectCall' = [detectCall EXCEPT !.loaded = TRUE]
    /\ UNCHANGED <<storedFile, orchVars, limiterVars, scheduleCall,
                   clientCall, ctorCall>>

\* watcher.detectChange(newCollection); detectCall keeps whether
\* loadPreviousState was called (and was before this call), this call's item and
\* result and the item of the call before it (calls counts 0, 1, 2 or more);
\* writeStoredCollectionJson creates the directory (lines 71-73)
DetectChangeCall ==
    \E newCollection \in Docs :
        LET r == DetectChange(watcher, storedFile, newCollection)
        IN  /\ watcher' = r.watcher
            /\ storedFile' = r.file
            /\ storageDirExists' =
                  (storageDirExists \/ (r.changed /\ watcher.enableJsonDiff))
            /\ detectCall' =
                  [calls |-> IF detectCall.calls = 0 THEN 1 ELSE 2,
                   loaded |-> detectCall.loaded,
                   loadedBefore |-> detectCall.loaded,
                   previousItem |-> IF detectCall.calls = 0 THEN NoItem ELSE detectCall.item,
                   item |-> NewItem(newCollection),
                   fileBefore |-> storedFile,
                   ret |-> [changed |-> r.changed, diff |-> r.diff]]
            /\ UNCHANGED <<orchVars, limiterVars, scheduleCall, clientCall, ctorCall>>

NextWatcher == LoadPreviousStateCall \/ DetectChangeCall
SpecWatcher == InitWatcher /\ [][NextWatcher]_vars

\* C6: a detectChange call that follows another reports changed exactly when
\* the fingerprint of its content differs from the fingerprint of the content
\* of the call before it, with structural diffing enabled or disabled.
C6_ChangedIffFingerprintDiffers ==
    detectCall.calls >= 2 =>
        (detectCall.ret.changed <=> Hash(detectCall.item) # Hash(detectCall.previousItem))

\* C6 witness: with diffing disabled, a call with the content of the call
\* before it reported changed = false
C6_Witness ==
    /\ detectCall.calls >= 2
    /\ ~watcher.enableJsonDiff
    /\ detectCall.item = detectCall.previousItem
    /\ ~detectCall.ret.changed

-----------------------------------------------------------------------------
(* SpecClient: upsertCollection applied to drawn inputs *)

InitClient ==
    /\ OrchOff /\ WatcherOff /\ LimiterOff /\ ScheduleOff /\ CtorOff
    /\ \E uid \in {NoUid, "uid-cfg"}, prevent \in BOOLEAN, http \in HttpReplies :
          clientCall = [called |-> FALSE, collectionUid |-> uid,
                        preventAutoCreate |-> prevent, http |-> http]

\* client.upsertCollection(workspaceId, collection, collectionUid, preventAutoCreate)
UpsertCollectionCall ==
    /\ ~clientCall.called
    /\ clientCall' =
          [called |-> TRUE, collectionUid |-> clientCall.collectionUid,
           preventAutoCreate |-> clientCall.preventAutoCreate, http |-> clientCall.http,
           ret |-> UpsertCollection(clientCall.collectionUid,
                                    clientCall.preventAutoCreate, clientCall.http)]
    /\ UNCHANGED <<orchVars, watcherVars, limiterVars, scheduleCall, ctorCall>>

NextClient == UpsertCollectionCall
SpecClient == InitClient /\ [][NextClient]_vars

\* C7: with preventAutoCreate set, upsertCollection issues no create request;
\* an update rejected as not-found or forbidden makes the call fail.
C7_NoCreateWhenPrevented ==
    (clientCall.called /\ clientCall.preventAutoCreate) =>
        /\ \A i \in 1..Len(clientCall.ret.calls) : clientCall.ret.calls[i] # "POST"
        /\ (/\ clientCall.collectionUid # NoUid
            /\ clientCall.http.update \in {HttpForbidden, HttpNotFound})
              => clientCall.ret.kind = "err"

-----------------------------------------------------------------------------
(* SpecCtor: the constructor applied to drawn options *)

\* Bound: the longest targetWorkspaces list drawn for the constructor
MaxCtorTargets == 2

CtorWindows == [startHour : WindowHours, endHour : WindowHours, intervalMinutes : {0, 1}]
CtorSchedules == {Undefined, Some(<<>>)} \cup {Some(<<w>>) : w \in CtorWindows}
PlainTarget ==
    [id |-> "", apiKeys |-> Pool(1), collectionUid |-> NoUid,
     preventAutoCreate |-> FALSE, enabled |-> TRUE, syncSchedule |-> Undefined]
CtorTargets ==
    {[PlainTarget EXCEPT !.syncSchedule = s] : s \in CtorSchedules}
      \cup {[PlainTarget EXCEPT !.apiKeys = <<>>],
            [PlainTarget EXCEPT !.preventAutoCreate = TRUE],
            [PlainTarget EXCEPT !.collectionUid = "uid-cfg", !.preventAutoCreate = TRUE]}
IdNames == <<"ws1", "ws2", "ws3", "ws4">>
\* each entry gets the id of its position
WithIds(list) == [i \in 1..Len(list) |-> [list[i] EXCEPT !.id = IdNames[i]]]

InitCtor ==
    /\ OrchOff /\ WatcherOff /\ LimiterOff /\ ScheduleOff /\ ClientOff
    /\ \E url \in ValidUrls \cup {"http://example.com"},
          list \in SeqsUpTo(CtorTargets, MaxCtorTargets),
          global \in CtorSchedules,
          minInterval \in {Undefined, Some(MinLoopIntervalMs - 1), Some(MinLoopIntervalMs)} :
          ctorCall = [called |-> FALSE,
                      options |-> [readOnlyUrl |-> url, targetWorkspaces |-> WithIds(list),
                                   syncSchedule |-> global, minIntervalMs |-> minInterval,
                                   dryRun |-> FALSE, enableJsonDiff |-> FALSE]]

\* new PostmanSync(options): status is "ok" when an orchestrator is
\* constructed and the thrown Error's message otherwise
ConstructCall ==
    /\ ~ctorCall.called
    /\ ctorCall' = [called |-> TRUE, options |-> ctorCall.options,
                    status |-> ValidateOptions(ctorCall.options)]
    /\ UNCHANGED <<orchVars, watcherVars, limiterVars, scheduleCall, clientCall>>

NextCtor == ConstructCall
SpecCtor == InitCtor /\ [][NextCtor]_vars

BadWindow(w) == w.startHour = w.endHour \/ 2 * w.intervalMinutes < 1
HasBadWindow(schedule) ==
    IsDefined(schedule) /\ \E i \in 1..Len(schedule[1]) : BadWindow(schedule[1][i])

\* C8: construction fails for every configuration with a schedule window, in
\* the global schedule or in a target's schedule, whose start hour equals its
\* end hour or whose intervalMinutes is below 0.5.
C8_BadWindowRejected ==
    ctorCall.called =>
        ( ( \/ HasBadWindow(ctorCall.options.syncSchedule)
            \/ \E i \in 1..Len(ctorCall.options.targetWorkspaces) :
                  HasBadWindow(ctorCall.options.targetWorkspaces[i].syncSchedule) )
          => ctorCall.status # "ok" )

-----------------------------------------------------------------------------
(* Spec: the PostmanSync orchestrator                                        *)
(*                                                                           *)
(* A step is the code that runs between two awaits: a call of start() or     *)
(* stop() by the host, a timer firing, the fetch response arriving, the      *)
(* upsert of one target (withRetry, run to its end) settling, or time        *)
(* passing.                                                                  *)

\* Bounds: the longest targetWorkspaces list, the number of clock advances,
\* and the number of timer chains start() may open
MaxTargets == 2
MaxAdvances == 2
MaxTimers == 2

\* the clock starts at 09:50 and advances five minutes at a time
StartNow == 9 * MsPerHour + 50 * MsPerMinute
AdvanceMs == 5 * MsPerMinute

EarlyWindow == [startHour |-> 9, endHour |-> 10, intervalMinutes |-> 5]
LateWindow == [startHour |-> 10, endHour |-> 11, intervalMinutes |-> 5]

\* the targets a configuration is drawn from: one to be auto-created (two keys), one
\* with its own schedule, two keys and creation disallowed, a disabled one
\* with a schedule of its own,
\* and one that validation rejects
OrchTargets ==
    {[PlainTarget EXCEPT !.apiKeys = Pool(2)],
     [PlainTarget EXCEPT !.collectionUid = "uid-cfg", !.preventAutoCreate = TRUE,
                         !.apiKeys = Pool(2), !.syncSchedule = Some(<<LateWindow>>)],
     [PlainTarget EXCEPT !.collectionUid = "uid-cfg", !.enabled = FALSE,
                         !.syncSchedule = Some(<<EarlyWindow>>)],
     [PlainTarget EXCEPT !.preventAutoCreate = TRUE]}

OrchOptions ==
    {[readOnlyUrl |-> url, targetWorkspaces |-> WithIds(list), syncSchedule |-> global,
      minIntervalMs |-> Undefined, dryRun |-> dry, enableJsonDiff |-> diffing] :
        url \in ValidUrls, list \in SeqsUpTo(OrchTargets, MaxTargets),
        global \in {Undefined, Some(<<EarlyWindow>>)},
        dry \in BOOLEAN, diffing \in BOOLEAN}

\* what the remote side may answer to one key: the update accepted, rejected
\* as not found (then the create accepted with status 200 or 201, or rejected),
\* rate-limited, or failed
OrchReplies ==
    {r \in HttpReplies :
        \/ r.update = HttpNotFound
        \/ r.update \in {HttpOk, HttpTooManyRequests, 500} /\ r.create = HttpOk}

\* the reply drawn for a key that no request is made with
UnaskedReply == CHOOSE r \in OrchReplies : TRUE

\* the documents the source serves: two with the same item list, one without
OrchDocs == {d \in Docs : d.item = "[a]" \/ (d.item = NoItem /\ d.name = "n1")}
FetchResponses ==
    {[kind |-> "reject", hasCollection |-> FALSE, collection |-> d] : d \in {CHOOSE x \in OrchDocs : TRUE}}
      \cup [kind : {"resolve"}, hasCollection : BOOLEAN, collection : OrchDocs]

\* constructor, lines 25-41
Init ==
    /\ ScheduleOff /\ ClientOff /\ CtorOff
    /\ limiter = <<>> /\ retryCall = EmptyMap
    /\ options \in OrchOptions
    /\ ValidateOptions(options) = "ok"
    /\ hasErrorListener \in BOOLEAN
    /\ storedFile \in IF options.enableJsonDiff
                      THEN {NoFile, WriteStoredCollectionJson("[a]")}
                      ELSE {NoFile}
    /\ storageDirExists \in IF options.enableJsonDiff THEN {TRUE} ELSE BOOLEAN
    /\ watcher = IF options.enableJsonDiff
                 THEN LoadPreviousState([enableJsonDiff |-> TRUE, lastHash |-> NoHash],
                                        storedFile)
                 ELSE [enableJsonDiff |-> FALSE, lastHash |-> NoHash]
    /\ detectCall = <<>>
    /\ targetWorkspacesMap = BuildTargetMap(options.targetWorkspaces, <<>>)
    /\ running = FALSE /\ isSyncing = FALSE /\ lastSyncTimes = EmptyMap
    /\ timers = 0 /\ pc = "idle" /\ cur = 0 /\ collection = <<>>
    /\ now = StartNow /\ events = <<>> /\ visited = <<>> /\ inflight = 0
    /\ last = "none"

otherVars == <<detectCall, limiter, scheduleCall, clientCall, ctorCall>>
configVars == <<options, hasErrorListener>>
cycleVars == <<lastSyncTimes, targetWorkspacesMap, pc, cur, collection, events,
               visited, watcher, storedFile, storageDirExists>>

\* line 188: if (this.isSyncing)
GuardNeverBlocks == FALSE
GuardBlocks == isSyncing

\* syncLoop() up to its first await, lines 183-195 and 275-281: called with
\* this.running = isRunning and timersLeft timers pending
SyncLoop(isRunning, timersLeft) ==
    IF ~isRunning
    THEN /\ timers' = timersLeft
         /\ last' = "stopped"
         /\ UNCHANGED <<isSyncing, inflight, cycleVars>>
    ELSE IF GuardBlocks
    THEN /\ timers' = timersLeft + 1
         /\ last' = "skipped"
         /\ UNCHANGED <<isSyncing, inflight, cycleVars>>
    ELSE /\ timers' = timersLeft
         /\ isSyncing' = TRUE
         /\ inflight' = inflight + 1
         /\ pc' = "fetching"
         /\ events' = << <<"syncStart">> >>
         /\ visited' = <<>>
         /\ cur' = 0
         /\ collection' = <<>>
         /\ last' = "cycle"
         /\ UNCHANGED <<lastSyncTimes, targetWorkspacesMap, watcher, storedFile,
                         storageDirExists>>

\* line 172: if (this.running) return
AlreadyRunningIgnored == FALSE
AlreadyRunning == running

\* start(), lines 171-176
Start ==
    /\ pc # "off"
    /\ timers + inflight < MaxTimers
    /\ IF AlreadyRunning
       THEN /\ last' = "returned"
            /\ UNCHANGED <<running, isSyncing, timers, inflight, cycleVars>>
       ELSE /\ running' = TRUE
            /\ SyncLoop(TRUE, timers)
    /\ UNCHANGED <<configVars, now, retryCall, otherVars>>

\* stop(), lines 178-181
Stop ==
    /\ pc # "off"
    /\ running' = FALSE
    /\ last' = "none"
    /\ UNCHANGED <<configVars, isSyncing, timers, inflight, cycleVars, now, retryCall,
                   otherVars>>

\* a pending setTimeout(() => this.syncLoop(), interval) fires
TimerFires ==
    /\ timers > 0
    /\ SyncLoop(running, timers - 1)
    /\ UNCHANGED <<configVars, running, now, retryCall, otherVars>>

\* time passes
Advance ==
    /\ pc # "off"
    /\ now < StartNow + MaxAdvances * AdvanceMs
    /\ now' = now + AdvanceMs
    /\ last' = "none"
    /\ UNCHANGED <<configVars, running, isSyncing, timers, inflight, cycleVars,
                   retryCall, otherVars>>

\* the for loop of sync(), lines 300-317, from the target at position i on,
\* at time t: the position of the first target that passes the three gates
\* (its timestamp recorded, line 317), or 0 with syncComplete emitted (line
\* 343) when there is none
\* line 303: if (target.enabled === false)
IsDisabledNever(target) == FALSE
IsDisabled(target) == target.enabled = FALSE

\* line 317: this.lastSyncTimes.set(target.id, Date.now())
RecordAttemptSkipped(times, id, t) == times
RecordAttempt(times, id, t) == MapSet(times, id, t)

RECURSIVE RunTargets(_, _, _, _, _, _, _)
RunTargets(i, map, scheduleConfig, times, evs, vis, t) ==
    IF i > Len(map)
    THEN [cur |-> 0, lastSyncTimes |-> times,
          events |-> Append(evs, <<"syncComplete">>), visited |-> vis]
    ELSE LET target == map[i]
             within == IsTargetWithinSchedule(target, scheduleConfig, GetHours(t))
             evs2 == evs \o within.emitted
         IN  IF IsDisabled(target)
             THEN RunTargets(i + 1, map, scheduleConfig, times, evs,
                             Append(vis, <<target.id, "disabled">>), t)
             ELSE IF ~within.result
             THEN RunTargets(i + 1, map, scheduleConfig, times, evs2,
                             Append(vis, <<target.id, "outside">>), t)
             ELSE IF ~ShouldSyncTarget(target, scheduleConfig, times, t)
             THEN RunTargets(i + 1, map, scheduleConfig, times, evs2,
                             Append(vis, <<target.id, "interval">>), t)
             ELSE [cur |-> i, lastSyncTimes |-> RecordAttempt(times, target.id, t),
                   events |-> evs2, visited |-> Append(vis, <<target.id, "upsert">>)]

\* sync() returned: syncLoop lines 200-202
SyncReturned ==
    /\ isSyncing' = FALSE
    /\ timers' = timers + 1
    /\ inflight' = inflight - 1
    /\ pc' = "idle" /\ cur' = 0 /\ collection' = <<>>

\* sync() threw err: syncLoop's catch, lines 196-199, emits ("error", err,
\* "syncLoop"); emit throws when no error listener is registered, and then
\* lines 200-202 are not reached
SyncThrew(evs) ==
    /\ events' = Append(evs, <<"error", "syncLoop">>)
    /\ inflight' = inflight - 1
    /\ pc' = "idle" /\ cur' = 0 /\ collection' = <<>>
    /\ IF hasErrorListener
       THEN isSyncing' = FALSE /\ timers' = timers + 1
       ELSE UNCHANGED <<isSyncing, timers>>

\* the loop of sync() goes on from position i (or sync() ends)
Continue(i, map, times, evs, vis) ==
    LET r == RunTargets(i, map, options.syncSchedule, times, evs, vis, now)
    IN  /\ lastSyncTimes' = r.lastSyncTimes
        /\ events' = r.events
        /\ visited' = r.visited
        /\ targetWorkspacesMap' = map
        /\ IF r.cur = 0
           THEN SyncReturned
           ELSE /\ pc' = "upserting" /\ cur' = r.cur
                /\ UNCHANGED <<isSyncing, timers, inflight, collection>>

\* line 289: if (!changed), the cycle ends after noChange
EndsUnchangedNever(changed) == FALSE
EndsUnchanged(changed) == ~changed

\* line 296: this.emit("change", collection, diff)
EmitChangeMissing(evs) == evs
EmitChange(evs) == Append(evs, <<"change">>)

\* lines 36 and 298: if (this.dryRun) return
DryRunIgnored(opts) == FALSE
DryRun(opts) == opts.dryRun

\* the fetch settles: sync() lines 279-317 (fetchCollection lines 228-241)
FetchDone ==
    /\ pc = "fetching"
    /\ \E res \in FetchResponses :
          IF res.kind = "reject" \/ ~res.hasCollection
          THEN /\ last' = "none"
               /\ IF hasErrorListener
                  THEN /\ events' = Append(events, <<"error", "fetchCollection">>)
                       /\ SyncReturned
                  ELSE SyncThrew(Append(events, <<"error", "fetchCollection">>))
               /\ UNCHANGED <<lastSyncTimes, targetWorkspacesMap, visited, watcher,
                               storedFile, storageDirExists>>
          ELSE LET d == DetectChange(watcher, storedFile, res.collection)
               IN  /\ watcher' = d.watcher
                   /\ storedFile' = d.file
                   /\ storageDirExists' =
                         (storageDirExists \/ (d.changed /\ watcher.enableJsonDiff))
                   /\ last' = "none"
                   /\ IF EndsUnchanged(d.changed)
                      THEN /\ events' = Append(events, <<"noChange">>)
                           /\ SyncReturned
                           /\ UNCHANGED <<lastSyncTimes, targetWorkspacesMap, visited>>
                      ELSE IF DryRun(options)
                      THEN /\ events' = EmitChange(events)
                           /\ SyncReturned
                           /\ UNCHANGED <<lastSyncTimes, targetWorkspacesMap, visited>>
                      ELSE LET r == RunTargets(1, targetWorkspacesMap, options.syncSchedule,
                                               lastSyncTimes, EmitChange(events),
                                               <<>>, now)
                           IN  /\ lastSyncTimes' = r.lastSyncTimes
                               /\ events' = r.events
                               /\ visited' = r.visited
                               /\ UNCHANGED targetWorkspacesMap
                               /\ IF r.cur = 0
                                  THEN SyncReturned
                                  ELSE /\ pc' = "upserting" /\ cur' = r.cur
                                       /\ collection' = res.collection
                                       /\ UNCHANGED <<isSyncing, timers, inflight>>
    /\ UNCHANGED <<configVars, running, now, retryCall, otherVars>>

\* the upsert of the target at position cur settles: sync() lines 319-340,
\* with a new RateLimiter (cursor 0) and a PostmanApiClient per key, then the
\* loop goes on.  replies[k] is what the remote side answers to key k.
\* retryCall keeps, per target id, the pool position with which the last
\* withRetry invocation for the target made its first attempt.
\* After an insert answered with status 200 the uid is assigned to the target
\* (line 328, the object the map holds) and appendAutoCreatedLogLine appends
\* to a file in storageDir (lines 355-362), which throws into the catch of
\* line 336 when the directory does not exist.
UpsertDone ==
    /\ pc = "upserting"
    /\ LET target == targetWorkspacesMap[cur]
       IN  \E replies \in [Range(target.apiKeys) -> OrchReplies] :
              LET fn == [k \in Range(target.apiKeys) |->
                            UpsertCollection(target.collectionUid,
                                             target.preventAutoCreate, replies[k])]
                  targetLimiter == [apiKeys |-> target.apiKeys, currentIndex |-> 0]
                  retried == WithRetry(targetLimiter.apiKeys,
                                       targetLimiter.currentIndex, fn)
                  result == retried.outcome
                  created == /\ result.kind = "ok"
                             /\ result.action = "insert"
                             /\ result.status = HttpOk
                  map == IF created
                         THEN [targetWorkspacesMap EXCEPT ![cur].collectionUid = result.uid]
                         ELSE targetWorkspacesMap
                  failed == result.kind = "err" \/ (created /\ ~storageDirExists)
                  evs == Append(events, IF failed
                                        THEN <<"error", "syncTarget", target.id>>
                                        ELSE <<result.action, target.id>>)
              IN  /\ \A j \in 1..Len(target.apiKeys) :
                        j > Len(retried.tried) => replies[target.apiKeys[j]] = UnaskedReply
                  /\ last' = "none"
                  /\ retryCall' = MapSet(retryCall, target.id, retried.tried[1])
                  /\ UNCHANGED <<watcher, storedFile, storageDirExists>>
                  /\ IF failed /\ ~hasErrorListener
                     THEN /\ SyncThrew(evs)
                          /\ targetWorkspacesMap' = map
                          /\ UNCHANGED <<lastSyncTimes, visited>>
                     ELSE Continue(cur + 1, map, lastSyncTimes, evs, visited)
    /\ UNCHANGED <<configVars, running, now, otherVars>>

Next == Start \/ Stop \/ TimerFires \/ Advance \/ FetchDone \/ UpsertDone
Spec == Init /\ [][Next]_vars

-----------------------------------------------------------------------------
(* Claims about the orchestrator *)

CycleInProgress == pc \in {"fetching", "upserting"}

\* a step that called syncLoop()
SyncLoopCalled == last' \in {"stopped", "skipped", "cycle"}

\* C1: at most one sync cycle is in progress in every reachable state; a
\* syncLoop invocation made while a cycle is in progress starts no cycle and
\* leaves the cycle in progress, its guard and every target record as they
\* are; and a cycle is started by nothing but a syncLoop invocation made
\* while none is in progress (a skipped invocation is not run later, when the
\* cycle ends).
C1_OverlapGuard ==
    /\ [](inflight <= 1)
    /\ [][(CycleInProgress /\ SyncLoopCalled)
             => /\ last' \in {"skipped", "stopped"}
                /\ inflight' = inflight
                /\ isSyncing' = isSyncing
                /\ UNCHANGED cycleVars]_vars
    /\ [][inflight' > inflight => (last' = "cycle" /\ ~CycleInProgress)]_vars

\* C1 witness: a syncLoop invocation was skipped while the cycle in progress
\* awaits the upsert of a target
C1_Witness ==
    /\ last = "skipped"
    /\ pc = "upserting"
    /\ inflight = 1
    /\ isSyncing

IsTargetError(e) == Len(e) = 3 /\ e[1] = "error" /\ e[2] = "syncTarget"
IsFetchError(e) == e = <<"error", "fetchCollection">>

\* C9: when a cycle in which the upsert of a target failed is over, the
\* failure was reported as an error event with context syncTarget:<id>, every
\* target of the configuration was evaluated by that cycle, in order, and
\* the cycle emitted syncComplete.
C9_FailureDoesNotAbortCycle ==
    (pc = "idle" /\ \E i \in 1..Len(events) : IsTargetError(events[i]))
        => /\ Len(visited) = Len(targetWorkspacesMap)
           /\ \A j \in 1..Len(visited) : visited[j][1] = targetWorkspacesMap[j].id
           /\ events[Len(events)] = <<"syncComplete">>

\* C10: a step in which the fetch fails emits the error event with context
\* fetchCollection and ends the cycle, leaves the fingerprint, the snapshot,
\* the last-sync map and every target record unchanged, evaluates no target,
\* releases the in-flight guard and schedules the next tick; and the first
\* syncLoop invocation after it, made while running, starts a new cycle.
C10_FetchFailureEndsCycle ==
    /\ [][(pc = "fetching" /\ \E i \in 1..Len(events') : IsFetchError(events'[i]))
             => /\ pc' = "idle"
                /\ UNCHANGED <<watcher, storedFile, lastSyncTimes, targetWorkspacesMap>>
                /\ visited' = <<>>
                /\ isSyncing' = FALSE
                /\ timers' = timers + 1]_vars
    /\ [][(/\ pc = "idle"
           /\ \E i \in 1..Len(events) : IsFetchError(events[i])
           /\ SyncLoopCalled /\ running')
             => last' = "cycle"]_vars

\* a step in which the fetch of the cycle in progress settles
FetchSettles == pc = "fetching" /\ pc' # "fetching"
HasFetchError(evs) == \E i \in 1..Len(evs) : IsFetchError(evs[i])
TargetEvents == {"scheduleOverride", "insert", "update", "error"}

\* C11: a step in which the fetch succeeds and change detection finds the
\* fingerprint it already held (reports unchanged) emits noChange and nothing
\* else, ends the cycle, attempts no upsert, evaluates no target, and leaves
\* the last-sync map and every target record unchanged; a cycle that ended
\* with noChange emitted no scheduleOverride, insert, update or error event.
C11_NoChangeTouchesNoTarget ==
    /\ [][(/\ FetchSettles
           /\ ~HasFetchError(events')
           /\ watcher'.lastHash = watcher.lastHash)
             => /\ events' = Append(events, <<"noChange">>)
                /\ pc' = "idle"
                /\ visited' = <<>>
                /\ UNCHANGED <<lastSyncTimes, targetWorkspacesMap>>]_vars
    /\ [](((pc = "idle" /\ \E i \in 1..Len(events) : events[i] = <<"noChange">>))
             => /\ events = << <<"syncStart">>, <<"noChange">> >>
                /\ visited = <<>>)

\* C11 witness: a cycle ended with noChange after an earlier cycle had
\* upserted a target
C11_Witness ==
    /\ pc = "idle"
    /\ events = << <<"syncStart">>, <<"noChange">> >>
    /\ lastSyncTimes # EmptyMap

-----------------------------------------------------------------------------
(* SpecInterval: shouldSyncTarget applied to drawn inputs *)

\* validated windows with two intervals, and the schedules made of them
IntervalWindows ==
    {w \in [startHour : WindowHours, endHour : WindowHours, intervalMinutes : {5, 30}] :
        ValidateSlot(w) = "ok"}
IntervalSchedules == {Undefined} \cup {Some(s) : s \in SeqsUpTo(IntervalWindows, MaxSlots)}

\* the clock at 07:40 or 19:40, and the minutes since the recorded timestamp
IntervalClocks == {7 * MsPerHour + 40 * MsPerMinute, 19 * MsPerHour + 40 * MsPerMinute}
ElapsedMinutes == {0, 4, 5, 9, 10, 29, 30}

InitInterval ==
    /\ OrchOff /\ WatcherOff /\ LimiterOff /\ ClientOff /\ CtorOff
    /\ \E local \in IntervalSchedules, global \in IntervalSchedules,
          t \in IntervalClocks :
          \E times \in {EmptyMap} \cup
                       {MapSet(EmptyMap, "ws1", t - e * MsPerMinute) : e \in ElapsedMinutes} :
             scheduleCall = [called |-> FALSE, target |-> ScheduleTarget(local),
                             scheduleConfig |-> global, lastSyncTimes |-> times, now |-> t]

\* sync.shouldSyncTarget(target) with Date.now() = scheduleCall.now
ShouldSyncTargetCall ==
    /\ ~scheduleCall.called
    /\ scheduleCall' =
          [called |-> TRUE, target |-> scheduleCall.target,
           scheduleConfig |-> scheduleCall.scheduleConfig,
           lastSyncTimes |-> scheduleCall.lastSyncTimes, now |-> scheduleCall.now,
           ret |-> ShouldSyncTarget(scheduleCall.target, scheduleCall.scheduleConfig,
                                    scheduleCall.lastSyncTimes, scheduleCall.now)]
    /\ UNCHANGED <<orchVars, watcherVars, limiterVars, clientCall, ctorCall>>

NextInterval == ShouldSyncTargetCall
SpecInterval == InitInterval /\ [][NextInterval]_vars

\* the schedule the schedule gate resolves: the target's when non-empty,
\* otherwise the global one when non-empty, otherwise none
ResolvedSchedule(local, global) ==
    IF NonEmpty(local) THEN local[1]
    ELSE IF NonEmpty(global) THEN global[1]
    ELSE <<>>
\* minutes the claim requires at `hour`: intervalMinutes of the first window
\* of the resolved schedule that contains the hour, 10 when none does
RequiredMinutes(local, global, hour) ==
    LET s == ResolvedSchedule(local, global)
        hits == {i \in 1..Len(s) : WindowContains(s[i], hour)}
    IN  IF hits = {} THEN 10
        ELSE s[CHOOSE i \in hits : \A j \in hits : i <= j].intervalMinutes

\* C12: shouldSyncTarget returns true exactly when the time elapsed since the
\* target's recorded timestamp (0 when none) is at least intervalMinutes of
\* the window matching the current hour in the schedule the schedule gate
\* resolves for the target, or at least 10 minutes when no window matches.
C12_IntervalGate ==
    scheduleCall.called =>
        LET t == scheduleCall.now
            lastT == IF "ws1" \in DOMAIN scheduleCall.lastSyncTimes
                     THEN scheduleCall.lastSyncTimes["ws1"] ELSE 0
            required == RequiredMinutes(scheduleCall.target.syncSchedule,
                                        scheduleCall.scheduleConfig, (t \div 3600000) % 24)
        IN  scheduleCall.ret <=> (t - lastT >= required * 60000)

-----------------------------------------------------------------------------
(* Claims about targets' destination identifiers *)

\* a step in which the upsert of the target at position cur settles and
\* emits event name e for it
UpsertEmits(e) ==
    /\ pc = "upserting"
    /\ Len(events') = Len(events) + 1
    /\ events'[Len(events')] = <<e, targetWorkspacesMap[cur].id>>

\* C13: a step in which the upsert of a target ends in a successful create
\* (the insert event is emitted for it) leaves the target's collectionUid
\* equal to the newly assigned identifier, and no step changes an assigned
\* identifier afterwards, so later upserts of the target are issued with it.
C13_CreatedUidStored ==
    /\ [][UpsertEmits("insert")
             => targetWorkspacesMap'[cur].collectionUid \in NewUids]_vars
    /\ [][\A i \in 1..Len(targetWorkspacesMap) :
             targetWorkspacesMap[i].collectionUid \in NewUids
                => targetWorkspacesMap'[i].collectionUid
                      = targetWorkspacesMap[i].collectionUid]_vars

-----------------------------------------------------------------------------
(* Claims about credential rotation across cycles *)

\* a step in which the upsert of the target at position cur settles
UpsertSettles == pc = "upserting" /\ (pc' # "upserting" \/ cur' # cur)

\* C14: when the upsert of a target with at least two credentials settles and
\* an earlier withRetry invocation was made for the same target, the two
\* invocations made their first attempt with different credentials.
C14_SuccessiveStartsDiffer ==
    [][(/\ UpsertSettles
        /\ Len(targetWorkspacesMap[cur].apiKeys) >= 2
        /\ targetWorkspacesMap[cur].id \in DOMAIN retryCall)
          => retryCall'[targetWorkspacesMap[cur].id]
                # retryCall[targetWorkspacesMap[cur].id]]_vars

-----------------------------------------------------------------------------
(* Claims about disabled targets *)

Mentions(e, id) == e[Len(e)] = id

\* C15: for every target with enabled = false, in every reachable state: no
\* event of a cycle names it (no scheduleOverride, insert, update or error),
\* a cycle that reached it recorded it as skipped for being disabled, no
\* timestamp is recorded for it and no withRetry invocation was made for it;
\* and isTargetWithinSchedule applied to it returns, at every hour, what it
\* returns for the same target enabled, which is true when neither the
\* target nor the configuration has a schedule.
C15_DisabledSkippedFirst ==
    \A i \in 1..Len(targetWorkspacesMap) :
        LET target == targetWorkspacesMap[i]
            asEnabled == [target EXCEPT !.enabled = TRUE]
            bare == [target EXCEPT !.syncSchedule = Undefined]
        IN  target.enabled = FALSE =>
               /\ \A j \in 1..Len(events) : ~Mentions(events[j], target.id)
               /\ \A j \in 1..Len(visited) :
                     visited[j][1] = target.id => visited[j][2] = "disabled"
               /\ target.id \notin DOMAIN lastSyncTimes
               /\ target.id \notin DOMAIN retryCall
               /\ \A hour \in 0..23 :
                     /\ IsTargetWithinSchedule(target, options.syncSchedule, hour).result
                           = IsTargetWithinSchedule(asEnabled, options.syncSchedule, hour).result
                     /\ IsTargetWithinSchedule(bare, Undefined, hour).result

\* C15 witness: a cycle skipped a disabled target, whose own schedule and the
\* global schedule both hold a window containing the hour, and went on to
\* upsert the target declared after it
C15_Witness ==
    /\ Len(visited) = 2
    /\ visited[1][2] = "disabled"
    /\ visited[2][2] = "upsert"
    /\ IsDefined(options.syncSchedule)
    /\ IsTargetWithinSchedule([targetWorkspacesMap[1] EXCEPT !.enabled = TRUE],
                              options.syncSchedule, GetHours(now)).result
    /\ <<"scheduleOverride", targetWorkspacesMap[1].id>> \notin Range(events)

-----------------------------------------------------------------------------
(* Claims about the end of a cycle *)

Count(evs, e) == Cardinality({i \in 1..Len(evs) : evs[i] = e})

\* C16: a cycle that emitted change has emitted syncComplete exactly once,
\* as its last event, when it is over, and has not emitted it while a target
\* is still being processed.
C16_CompleteOncePerChangedCycle ==
    Count(events, <<"change">>) > 0 =>
        /\ pc = "idle" => /\ Count(events, <<"syncComplete">>) = 1
                          /\ events[Len(events)] = <<"syncComplete">>
        /\ pc # "idle" => Count(events, <<"syncComplete">>) = 0

-----------------------------------------------------------------------------
(* Claims about stop() *)

\* C17: a cycle starts only in a step that leaves the orchestrator running
\* (none starts between stop() and the next start()); a step that stops the
\* orchestrator leaves the cycle in progress, the guard and the pending
\* timers as they are; and a cycle that detected a change (not in dry-run
\* mode) and ends while the orchestrator is stopped has evaluated every
\* target and emitted syncComplete.
C17_StopDoesNotCancel ==
    /\ [][inflight' > inflight => running']_vars
    /\ [][(running /\ ~running')
             => UNCHANGED <<cycleVars, isSyncing, inflight, timers>>]_vars
    /\ []((/\ pc = "idle" /\ ~running
           /\ Count(events, <<"change">>) > 0
           /\ ~options.dryRun)
             => /\ Len(visited) = Len(targetWorkspacesMap)
                /\ events[Len(events)] = <<"syncComplete">>)

-----------------------------------------------------------------------------
(* Claims about dry-run mode *)

\* C18: with dryRun set, in every reachable state no upsert is awaited or
\* was attempted, no target was evaluated, no insert or update event was
\* emitted, and the last-sync map and the target records are those of
\* construction; and every step in which a fetch succeeds runs change
\* detection and emits change when the fingerprint moved and noChange when it
\* did not.
C18_DryRunSyncsNothing ==
    /\ [](options.dryRun
            => /\ pc # "upserting"
               /\ retryCall = EmptyMap
               /\ visited = <<>>
               /\ \A i \in 1..Len(events) : events[i][1] \notin {"insert", "update"}
               /\ lastSyncTimes = EmptyMap
               /\ targetWorkspacesMap = BuildTargetMap(options.targetWorkspaces, <<>>))
    /\ [][(options.dryRun /\ FetchSettles /\ ~HasFetchError(events'))
             => /\ watcher'.lastHash # NoHash
                /\ events' = Append(events, IF watcher'.lastHash # watcher.lastHash
                                            THEN <<"change">> ELSE <<"noChange">>)]_vars

\* C18 witness: a dry-run cycle reported a change and ended while a target
\* of the configuration was enabled, within its schedule and due
C18_Witness ==
    /\ options.dryRun
    /\ pc = "idle"
    /\ events = << <<"syncStart">>, <<"change">> >>
    /\ \E i \in 1..Len(targetWorkspacesMap) :
          LET target == targetWorkspacesMap[i]
          IN  /\ target.enabled
              /\ IsTargetWithinSchedule(target, options.syncSchedule, GetHours(now)).result
              /\ ShouldSyncTarget(target, options.syncSchedule, lastSyncTimes, now)

-----------------------------------------------------------------------------
(* Claims about the first detection *)

\* the first detectChange call found a snapshot loaded: loadPreviousState had
\* been called with diffing enabled and the snapshot file present
SnapshotLoaded ==
    /\ detectCall.loadedBefore
    /\ watcher.enableJsonDiff
    /\ IsDefined(detectCall.fileBefore)

\* C19: the first detectChange call reports changed = true when no snapshot
\* was loaded before it, and changed = false when diffing is enabled and a
\* snapshot was loaded whose content equals the item content of the call.
C19_FirstDetection ==
    detectCall.calls = 1 =>
        /\ ~SnapshotLoaded => detectCall.ret.changed
        /\ (SnapshotLoaded /\ detectCall.fileBefore[1].text = detectCall.item)
              => ~detectCall.ret.changed

\* C19 witness: the first call after a snapshot with the same content was
\* loaded reported changed = false
C19_Witness ==
    /\ detectCall.calls = 1
    /\ SnapshotLoaded
    /\ detectCall.fileBefore[1].text = detectCall.item
    /\ ~detectCall.ret.changed

-----------------------------------------------------------------------------
(* Claims about the target records *)

CreationImpossible(target) == target.collectionUid = NoUid /\ target.preventAutoCreate

-----------------------------------------------------------------------------
(* Claims about the attempt timestamp *)

\* a step after which the upsert of a target is awaited that was not before
EntersUpsert == pc' = "upserting" /\ (pc # "upserting" \/ cur' # cur)
\* a step in which the upsert of the target at position cur settles and the
\* per-target error event is emitted for it
UpsertFails ==
    /\ UpsertSettles
    /\ \E j \in (Len(events) + 1)..Len(events') :
          events'[j] = <<"error", "syncTarget", targetWorkspacesMap[cur].id>>

-----------------------------------------------------------------------------
(* Claims about the order of visits and events *)

\* the number of insert, update and per-target error events naming id
OutcomeCount(evs, id) ==
    Cardinality({i \in 1..Len(evs) :
                    evs[i] \in {<<"insert", id>>, <<"update", id>>,
                                <<"error", "syncTarget", id>>}})

\* C22: the targets of a cycle that emitted change are visited in the order
\* of the configuration: the visits made so far are the first declared
\* targets, one visit each in declared order, and when the cycle is over
\* every declared target was visited; each visited target that passed the
\* gates and whose upsert is no longer awaited has exactly one insert,
\* update or per-target error event in the cycle.
C22_VisitedInDeclaredOrder ==
    Count(events, <<"change">>) > 0 =>
        /\ Len(visited) <= Len(options.targetWorkspaces)
        /\ \A j \in 1..Len(visited) : visited[j][1] = options.targetWorkspaces[j].id
        /\ pc = "idle" => Len(visited) = Len(options.targetWorkspaces)
        /\ \A j \in 1..Len(visited) :
              (visited[j][2] = "upsert" /\ ~(pc = "upserting" /\ cur = j))
                 => OutcomeCount(events, visited[j][1]) = 1


IsTargetEvent(e) ==
    e[1] \in {"scheduleOverride", "insert", "update"} \/ IsTargetError(e)

\* C23: the events of a cycle start with syncStart, the only event while the
\* fetch is awaited; change is emitted at most once and before every
\* scheduleOverride, insert, update and per-target error event, none of which
\* is emitted without it; syncComplete is emitted at most once and is then
\* the last event; noChange and change are not both emitted.
C23_EventOrder ==
    events # <<>> =>
        /\ events[1] = <<"syncStart">>
        /\ Count(events, <<"syncStart">>) = 1
        /\ pc = "fetching" => events = << <<"syncStart">> >>
        /\ Count(events, <<"change">>) <= 1
        /\ \A j \in 1..Len(events) :
              IsTargetEvent(events[j])
                 => \E i \in 1..(j - 1) : events[i] = <<"change">>
        /\ Count(events, <<"syncComplete">>) <= 1
        /\ \A j \in 1..Len(events) :
              events[j] = <<"syncComplete">> => j = Len(events)
        /\ ~(Count(events, <<"noChange">>) > 0 /\ Count(events, <<"change">>) > 0)

\* C23 witness: a finished cycle emitted change, a scheduleOverride, a
\* per-target error and an update or insert, and syncComplete last
C23_Witness ==
    /\ pc = "idle"
    /\ events # <<>>
    /\ events[Len(events)] = <<"syncComplete">>
    /\ \E i, j, k \in 1..Len(events) :
          /\ events[i][1] = "scheduleOverride"
          /\ IsTargetError(events[j])
          /\ events[k][1] \in {"insert", "update"}

-----------------------------------------------------------------------------
(* Claims about the persisted snapshot *)

\* the patch from content a to content b
ExpectedDiff(a, b) == IF a = b THEN <<>> ELSE << <<"replace", a, b>> >>

\* C24: after a detectChange call, when the call reported a change and
\* diffing is enabled the snapshot file holds the content of the call and
\* the diff returned is the patch from the snapshot held before the call to
\* that content (no diff when there was no snapshot); otherwise the file is
\* as it was before the call and no diff is returned.
C24_SnapshotWrittenOnChange ==
    detectCall.calls >= 1 =>
        IF detectCall.ret.changed /\ watcher.enableJsonDiff
        THEN /\ IsDefined(storedFile)
             /\ storedFile[1].text = detectCall.item
             /\ detectCall.ret.diff =
                   IF IsDefined(detectCall.fileBefore)
                   THEN Some(ExpectedDiff(detectCall.fileBefore[1].text, detectCall.item))
                   ELSE Undefined
        ELSE /\ storedFile = detectCall.fileBefore
             /\ detectCall.ret.diff = Undefined

\* C24 witness: a call with diffing enabled replaced a snapshot holding other
\* content and returned the patch between the two
C24_Witness ==
    /\ detectCall.calls >= 1
    /\ watcher.enableJsonDiff
    /\ detectCall.ret.changed
    /\ IsDefined(detectCall.fileBefore)
    /\ detectCall.fileBefore[1].text # detectCall.item
    /\ detectCall.ret.diff # Undefined
    /\ storedFile # detectCall.fileBefore

-----------------------------------------------------------------------------
(* SpecTimed: syncLoop with timer deadlines                                  *)
(*                                                                           *)
(* The cycle is taken as a whole: sync() is awaited for some time and        *)
(* returns.  Here timers is the set of the times at which the pending        *)
(* setTimeout callbacks are due, last is the time of the latest syncLoop     *)
(* invocation (Undefined before the first) and cur the time before it.       *)

\* Bound: how far the clock runs, in steps
MaxElapsedSteps == 12

\* the clock advances a third of the smallest interval at a time
TimeStepMs == MinLoopIntervalMs \div 3

\* line 206: this.options.minIntervalMs ?? 3000
DefaultLoopIntervalMs == 3000
GetCurrentInterval(opts) ==
    IF IsDefined(opts.minIntervalMs) THEN opts.minIntervalMs[1]
    ELSE DefaultLoopIntervalMs

TimedOptions ==
    {[readOnlyUrl |-> url, targetWorkspaces |-> WithIds(<<PlainTarget>>),
      syncSchedule |-> Undefined, minIntervalMs |-> m, dryRun |-> FALSE,
      enableJsonDiff |-> FALSE] :
        url \in ValidUrls,
        m \in {Undefined, Some(MinLoopIntervalMs), Some(MinLoopIntervalMs + TimeStepMs)}}

InitTimed ==
    /\ WatcherOff /\ LimiterOff /\ ScheduleOff /\ ClientOff /\ CtorOff
    /\ options \in TimedOptions
    /\ ValidateOptions(options) = "ok"
    /\ hasErrorListener = TRUE
    /\ targetWorkspacesMap = BuildTargetMap(options.targetWorkspaces, <<>>)
    /\ lastSyncTimes = EmptyMap
    /\ running = FALSE /\ isSyncing = FALSE
    /\ timers = {} /\ pc = "idle" /\ cur = Undefined /\ collection = <<>>
    /\ now = 0 /\ events = <<>> /\ visited = <<>> /\ inflight = 0
    /\ last = Undefined

timedFrame == <<options, hasErrorListener, targetWorkspacesMap, lastSyncTimes,
                collection, events, visited, watcherVars, limiterVars,
                scheduleCall, clientCall, ctorCall>>

\* syncLoop() up to its await, lines 183-195, with the timers in `pending`
\* left; called while running
TimedSyncLoop(pending) ==
    /\ last' = Some(now)
    /\ cur' = last
    /\ IF isSyncing
       THEN /\ timers' = pending \cup {now + GetCurrentInterval(options)}
            /\ UNCHANGED <<isSyncing, pc, inflight>>
       ELSE /\ isSyncing' = TRUE
            /\ pc' = "syncing"
            /\ inflight' = inflight + 1
            /\ timers' = pending

\* start(), lines 171-176, called once
TimedStart ==
    /\ ~running /\ last = Undefined
    /\ running' = TRUE
    /\ TimedSyncLoop(timers)
    /\ UNCHANGED <<now, timedFrame>>

\* a timer that is due fires: syncLoop()
TimedTimerFires ==
    /\ running
    /\ now \in timers
    /\ TimedSyncLoop(timers \ {now})
    /\ UNCHANGED <<running, now, timedFrame>>

\* await this.sync() returns: lines 200-202
TimedSyncReturns ==
    /\ pc = "syncing"
    /\ isSyncing' = FALSE
    /\ pc' = "idle"
    /\ inflight' = inflight - 1
    /\ timers' = timers \cup {now + GetCurrentInterval(options)}
    /\ UNCHANGED <<running, now, last, cur, timedFrame>>

\* time passes, unless a timer is due
TimedAdvance ==
    /\ running
    /\ now \notin timers
    /\ now < MaxElapsedSteps * TimeStepMs
    /\ now' = now + TimeStepMs
    /\ UNCHANGED <<running, isSyncing, timers, pc, inflight, last, cur, timedFrame>>

NextTimed == TimedStart \/ TimedTimerFires \/ TimedSyncReturns \/ TimedAdvance
SpecTimed == InitTimed /\ [][NextTimed]_vars

\* C25: every syncLoop invocation made while running comes exactly one loop
\* interval after the invocation before it, however long the cycle started
\* by that one took.
C25_FixedTickPeriod ==
    (IsDefined(last) /\ IsDefined(cur))
        => last[1] - cur[1] = GetCurrentInterval(options)


-----------------------------------------------------------------------------
(* Claims about the propagation of a detected change *)

\* the target may be upserted at time t: enabled, within its schedule, and
\* its interval elapsed (the three gates of lines 303-315)
Due(target, t) ==
    /\ ~IsDisabled(target)
    /\ IsTargetWithinSchedule(target, options.syncSchedule, GetHours(t)).result
    /\ ShouldSyncTarget(target, options.syncSchedule, lastSyncTimes, t)

\* C26: a change that was detected reaches every target: when a cycle finds
\* the source unchanged after an earlier cycle of this run detected a change
\* and attempted some target, no target that is enabled, within its schedule
\* and past its interval at that time is left without any upsert attempt (a
\* target skipped in the cycle that detected the change is attempted in a
\* later one).
C26_ChangeReachesSkippedTargets ==
    [][(/\ pc = "fetching"
        /\ events' = Append(events, <<"noChange">>)
        /\ DOMAIN lastSyncTimes # {})
          => \A i \in 1..Len(targetWorkspacesMap) :
                Due(targetWorkspacesMap[i], now)
                  => targetWorkspacesMap[i].id \in DOMAIN lastSyncTimes]_vars

-----------------------------------------------------------------------------
(* Claims about the guard, the timer chain and start() *)

\* C27: in every reachable state in which no cycle is executing the guard
\* isSyncing is false; and every step that ends a cycle, whichever way it
\* ends, resets the guard and, while running, schedules the next tick.
C27_GuardReleased ==
    /\ [](~CycleInProgress => ~isSyncing)
    /\ [][(CycleInProgress /\ ~CycleInProgress')
             => /\ ~isSyncing'
                /\ running => timers' = timers + 1]_vars

\* C28: in every reachable state at most one future tick is pending,
\* whatever the interleaving of start(), stop(), timer firings and cycle
\* completions.
C28_SingleTimerChain == timers <= 1

\* C29: a start() call made while running returns without a change to the
\* run state (running flag, guard, pending timers, cycles in flight, and all
\* the state of the cycle in progress); and while running, a cycle starts
\* only in a step that consumes a pending timer and a timer is added only in
\* a step that ends a cycle, so start() adds neither a loop nor a cycle.
C29_StartIdempotent ==
    /\ [][last' = "returned"
             => /\ running
                /\ UNCHANGED <<configVars, running, isSyncing, timers, inflight,
                               cycleVars, now>>]_vars
    /\ [][running => /\ inflight' > inflight => timers' = timers - 1
                     /\ timers' > timers => inflight' < inflight]_vars

\* C29 witness: start() returned at once while a cycle is in flight and
\* the orchestrator runs
C29_Witness ==
    /\ last = "returned"
    /\ running
    /\ inflight = 1
    /\ isSyncing


-----------------------------------------------------------------------------
(* Claims about the snapshot and the fingerprint *)

\* C30: with structural diffing enabled, in every state reached after
\* loadPreviousState or after a detectChange call, if a persisted snapshot
\* exists then the fingerprint in memory is the fingerprint of the content
\* of the persisted snapshot.
C30_SnapshotMatchesFingerprint ==
    (/\ watcher.enableJsonDiff
     /\ detectCall.loaded \/ detectCall.calls >= 1
     /\ IsDefined(storedFile))
        => watcher.lastHash = Hash(ReadStoredCollectionJson(storedFile)[1])

\* C30 witness: with diffing enabled, a detectChange call replaced an
\* existing snapshot with other content, and the fingerprint in memory is
\* that of the new snapshot
C30_Witness ==
    /\ watcher.enableJsonDiff
    /\ detectCall.calls >= 1
    /\ detectCall.ret.changed
    /\ IsDefined(detectCall.fileBefore)
    /\ IsDefined(storedFile)
    /\ detectCall.fileBefore # storedFile
    /\ watcher.lastHash = Hash(detectCall.item)

====
